---- MODULE Spec2Model ----
(***************************************************************************)
(* The transport core of pytonapi: AsyncTonapiClient (construction, header *)
(* merge, response interpretation, rate-limit retry loop) and the error    *)
(* taxonomy of pytonapi.exceptions.                                        *)
(*                                                                         *)
(* One client instance serves calls one after the other.  A call is cut at *)
(* its suspension points: the network operation (Send .. Receive) and the  *)
(* one-second sleep of the retry loop (Receive .. Sleep).                  *)
(***************************************************************************)
EXTENDS Naturals, Sequences, FiniteSets

\* Largest max_retries a client is constructed with.
MaxRetries == 3

(***************************************************************************)
(* Values.  Python values that reach the caller are tagged so that values  *)
(* of different Python types stay comparable: a str, a bool, a decoded     *)
(* JSON object (named by the body it was decoded from).                    *)
(***************************************************************************)
Str(s) == [t |-> "str", v |-> s]
Bool(b) == [t |-> "bool", v |-> IF b THEN "true" ELSE "false"]
Json(id) == [t |-> "json", v |-> id]
NoValue == [t |-> "none", v |-> ""]

\* Python truthiness of a value: '' is falsy, the decoded objects of Bodies are
\* non-empty mappings.
Truthy(x) ==
    CASE x.t = "str" -> x.v # ""
      [] x.t = "bool" -> x.v = "true"
      [] x.t = "json" -> TRUE
      [] OTHER -> FALSE

(***************************************************************************)
(* Python dicts of headers: functions from a finite set of names.          *)
(***************************************************************************)
EmptyDict == [n \in {} |-> ""]

DictTruthy(d) == DOMAIN d # {}

\* dict.update(other): every entry of other is written into d, replacing the
\* value of a key d already holds.
DictUpdate(d, other) ==
    [n \in DOMAIN d \cup DOMAIN other |-> IF n \in DOMAIN other THEN other[n] ELSE d[n]]

(***************************************************************************)
(* Constructor inputs.                                                     *)
(***************************************************************************)
ApiKeys == {"key1"}

Verbs == {"GET", "POST"}

\* The header mappings a caller owns and may pass to _get/_post.
CallerHeaderMaps ==
    { EmptyDict,
      [n \in {"Accept-Language"} |-> "en"],
      [n \in {"Authorization"} |-> "Bearer caller"],
      [n \in {"Accept-Language", "Authorization"} |->
          IF n = "Authorization" THEN "Bearer caller" ELSE "en"] }

(***************************************************************************)
(* Responses of the server: a status and a body.  A body is a JSON object  *)
(* with or without an 'error' field, a JSON value that is no object (an    *)
(* array), or a body whose content type is not JSON.                       *)
(***************************************************************************)
Statuses == {200, 204, 302, 400, 401, 404, 429, 500}

Bodies ==
    { [id |-> "obj_error", form |-> "object", has_error |-> TRUE, error |-> "boom", text |-> "{error: boom}"],
      [id |-> "obj_error_empty", form |-> "object", has_error |-> TRUE, error |-> "", text |-> "{error: }"],
      [id |-> "obj_plain", form |-> "object", has_error |-> FALSE, error |-> "", text |-> "{balance: 1}"],
      [id |-> "array", form |-> "array", has_error |-> FALSE, error |-> "", text |-> "[1]"],
      [id |-> "text", form |-> "text", has_error |-> FALSE, error |-> "", text |-> "oops"],
      [id |-> "text_empty", form |-> "text", has_error |-> FALSE, error |-> "", text |-> ""] }

Responses == [status : Statuses, body : Bodies]

(***************************************************************************)
(* pytonapi.exceptions                                                     *)
(***************************************************************************)
UnauthorizedMessage ==
    "API key is missing or invalid. You can get an access token here https://tonconsole.com/"

NotFoundMessage == "Error 404: Method does not exist."

TooManyRequestsMessage ==
    "Too many requests per second. Upgrade your plan on https://tonconsole.com/tonapi/pricing."

\* The classes below TONAPIError, the base class included.
TONAPIErrors ==
    { "TONAPIError", "TONAPIClientError", "TONAPIServerError", "TONAPIBadRequestError",
      "TONAPIUnauthorizedError", "TONAPINotFoundError", "TONAPITooManyRequestsError",
      "TONAPIInternalServerError" }

\* An exception instance: its class and str(exception).
Raise(kind, message) == [kind |-> kind, val |-> message]
Return(payload) == [kind |-> "return", val |-> payload]
NoOutcome == [kind |-> "none", val |-> NoValue]

TONAPIBadRequestError(error) == Raise("TONAPIBadRequestError", error)
TONAPIUnauthorizedError == Raise("TONAPIUnauthorizedError", Str(UnauthorizedMessage))
TONAPINotFoundError == Raise("TONAPINotFoundError", Str(NotFoundMessage))
TONAPITooManyRequestsError(text) ==
    Raise("TONAPITooManyRequestsError", IF Truthy(text) THEN text ELSE Str(TooManyRequestsMessage))
TONAPIInternalServerError(error) == Raise("TONAPIInternalServerError", error)
TONAPIError(error) == Raise("TONAPIError", error)

(***************************************************************************)
(* AsyncTonapiClient.__process_response                                    *)
(***************************************************************************)
\* Variant: the 'error' field is never looked up.
ErrorPayload_WholeJson(body) == Json(body.id)

\* response.get('error', response) on the decoded JSON object.
ErrorPayload(body) == IF body.has_error THEN Str(body.error) ELSE Json(body.id)

\* Variant: the test of the status is inverted.
NonJsonPlaceholder_Inverted(status_code) == Bool(status_code # 200)

\* The placeholder that stands for the payload when the body is not JSON.
NonJsonPlaceholder(status_code) == Bool(status_code = 200)

\* The if/elif chain on the status code.
MapStatus(status_code, response, error) ==
    CASE status_code = 200 -> Return(response)
      [] status_code = 400 -> TONAPIBadRequestError(error)
      [] status_code = 401 -> TONAPIUnauthorizedError
      [] status_code = 404 -> TONAPINotFoundError
      [] status_code = 429 -> TONAPITooManyRequestsError(error)
      [] status_code = 500 -> TONAPIInternalServerError(error)
      [] OTHER -> TONAPIError(error)

\* Variant: the except branch returns the placeholder at once.
ProcessResponse_PlaceholderFirst(r) ==
    CASE r.body.form = "object" -> MapStatus(r.status, Json(r.body.id), ErrorPayload(r.body))
      [] r.body.form = "array" ->
            Raise("AttributeError", Str("'list' object has no attribute 'get'"))
      [] OTHER -> Return(NonJsonPlaceholder(r.status))

\* response.json() returns the decoded value when the content type is JSON and
\* raises ContentTypeError otherwise; a decoded value that is no mapping has no
\* attribute 'get', so the lookup of 'error' raises AttributeError, which
\* nothing in the client catches.
ProcessResponse(r) ==
    CASE r.body.form = "object" -> MapStatus(r.status, Json(r.body.id), ErrorPayload(r.body))
      [] r.body.form = "array" ->
            Raise("AttributeError", Str("'list' object has no attribute 'get'"))
      [] OTHER -> MapStatus(r.status, NonJsonPlaceholder(r.status), Str(r.body.text))

(***************************************************************************)
(* AsyncTonapiClient._get / _post: the effective headers.                  *)
(***************************************************************************)
\* Variant: the default fills only the keys the caller left out
\* (self.__headers | headers written back into headers).
MergeHeaders_FillIfAbsent(headers, passed, defaults) ==
    IF passed /\ DictTruthy(headers) THEN DictUpdate(defaults, headers) ELSE headers

\* headers.update(self.__headers) if headers else ...
\* The result is the content of the caller's mapping after the statement.
MergeHeaders(headers, passed, defaults) ==
    IF passed /\ DictTruthy(headers) THEN DictUpdate(headers, defaults) ELSE headers

\* Variant: the update is applied the other way round,
\* self.__headers.update(headers).
ClientHeadersAfterMerge_Reversed(headers, passed, defaults) ==
    IF passed /\ DictTruthy(headers) THEN DictUpdate(defaults, headers) ELSE defaults

\* self.__headers after the two statements: update() only reads its argument,
\* and the name headers is bound to self.__headers without writing to it
\* (ClientSession copies the headers it is given).
ClientHeadersAfterMerge(headers, passed, defaults) == defaults

\* Variant: headers if headers is not None else self.__headers
EffectiveHeaders_NotNone(headers, passed, defaults) ==
    IF passed THEN headers ELSE defaults

\* headers = headers or self.__headers
EffectiveHeaders(headers, passed, defaults) ==
    IF passed /\ DictTruthy(headers) THEN headers ELSE defaults

(***************************************************************************)
(* AsyncTonapiClient._get / _post: the query parameters and the body.      *)
(***************************************************************************)
\* The params= of _get and the body= of _post: None, an empty mapping or a
\* mapping with an entry.
ParamArgs ==
    { [given |-> FALSE, map |-> EmptyDict],
      [given |-> TRUE, map |-> EmptyDict],
      [given |-> TRUE, map |-> [n \in {"limit"} |-> "100"]] }

\* params = params.copy() if params else {}: the value of the local.
CopyParams(params, given) ==
    IF given /\ DictTruthy(params) THEN params ELSE EmptyDict

\* Variant: an entry is written into the caller's mapping before the copy.
CallerParamsAfterCopy_Updated(params) ==
    DictUpdate(params, [n \in {"limit"} |-> "1000"])

\* dict.copy() builds a new mapping; the caller's mapping holds afterwards
\* what it held before, and nothing later in the call refers to it.
CallerParamsAfterCopy(params) == params

(***************************************************************************)
(* AsyncTonapiClient.__retry                                               *)
(***************************************************************************)
\* Variant: the bound of the loop is inclusive.
RangeHasNext_Inclusive(i, n) == i <= n

\* for i in range(self._max_retries): the loop body runs for i while i < max.
RangeHasNext(i, n) == i < n

\* Variant: except TONAPIError
ResponseEvents_LogInsideWith(retried) ==
    IF retried THEN <<"response", "log", "release">> ELSE <<"response", "release">>

\* What follows the arrival of a response: the async with block is left,
\* by return or by the exception, before the except clause logs.
ResponseEvents(retried) ==
    IF retried THEN <<"response", "release", "log">> ELSE <<"response", "release">>

SleepFollows_OnlyBetweenAttempts(i, n) == i + 1 < n

\* await asyncio.sleep(1) ends the except clause of every attempt i.
SleepFollows(i, n) == TRUE

IsRetried_AnyApiError(o) == o.kind \in TONAPIErrors

\* Variant: except (TONAPITooManyRequestsError, TONAPIInternalServerError)
IsRetried_ServerErrorToo(o) ==
    o.kind \in {"TONAPITooManyRequestsError", "TONAPIInternalServerError"}

\* except TONAPITooManyRequestsError: the only outcome the loop swallows.
IsRetried(o) == o.kind = "TONAPITooManyRequestsError"

(***************************************************************************)
(* State.                                                                  *)
(***************************************************************************)
VARIABLES
    api_key,          \* self._api_key
    testnet,          \* self._testnet
    max_retries,      \* self._max_retries
    client_headers,   \* self.__headers
    base_url,         \* self.__base_url
    caller_headers,   \* the mapping the caller owns and may pass as headers=
    caller_params,    \* the mapping the caller passes as params= or body=
    params_given,     \* TRUE when params= / body= is not None
    params_in,        \* the caller's params / body as it was when the call began
    request_params,   \* the local params / body, sent with every request
    pc,               \* "idle", "loop", "await", "sleep", "done"
    verb,             \* "GET" for _get, "POST" for _post
    passed,           \* TRUE when the call was given headers (not None)
    headers_in,       \* the caller's mapping as it was when the call began
    session,          \* "none", "open", "closed": the aiohttp.ClientSession of the call
    session_headers,  \* the headers the session sends with every request
    i,                \* the loop variable of __retry
    requests,         \* HTTP requests issued by the call
    trace,            \* the responses the call received, in order
    interps,          \* what __process_response made of each of them
    log,              \* the warnings logged: <<attempt, max_retries>>
    sleeps,           \* completed asyncio.sleep(1) of the call
    events,           \* what the call did, in order: "request", "response", "release",
                      \* "log", "sleep"
    outcome,          \* what the call returned or raised
    calls,            \* the calls that are outstanding together on the client
    created,          \* aiohttp.ClientSession objects created so far
    open_sessions,    \* those of them that are not closed
    query,            \* the request the current facade call handed to _get
    fpc,              \* get_all_nfts: "idle", "fetch", "done"
    nft_args,         \* get_all_nfts: collection and indirect_ownership
    nft_items,        \* get_all_nfts: the local list nft_items
    offset,           \* get_all_nfts: the local offset
    page_log,         \* get_all_nfts: the params of each get_nfts request, in order
    page_sizes,       \* get_all_nfts: the length of each page received, in order
    raised,           \* get_all_nfts: the error a get_nfts request raised, if any
    nft_result,       \* get_all_nfts: what it returned or raised
    owned             \* items the account holds on a server that honours offset and limit

client == <<api_key, testnet, max_retries, client_headers, base_url>>
params_state == <<caller_params, params_given, params_in, request_params>>
call == <<pc, verb, passed, headers_in, session, session_headers, i, requests,
          trace, interps, log, sleeps, events, outcome, params_state>>
conc == <<calls, created, open_sessions>>
facade == <<query, fpc, nft_args, nft_items, offset, page_log, page_sizes, raised,
            nft_result, owned>>
vars == <<client, caller_headers, call, conc, facade>>

\* Variant: the last error caught by the loop is raised again.
ExhaustedError_LastCaught ==
    IF interps # <<>> THEN interps[Len(interps)] ELSE TONAPITooManyRequestsError(NoValue)

\* raise TONAPITooManyRequestsError after the loop: the class is raised without
\* arguments, so text is None.
ExhaustedError == TONAPITooManyRequestsError(NoValue)

\* AsyncTonapiClient.__init__
ClientInit(key, net, retries) ==
    /\ api_key = key
    /\ testnet = net
    /\ max_retries = retries
    /\ client_headers = [n \in {"Authorization"} |-> "Bearer " \o key]
    /\ base_url = IF net THEN "https://testnet.tonapi.io/" ELSE "https://tonapi.io/"

CallIdle ==
    /\ pc = "idle"
    /\ verb = "GET"
    /\ passed = FALSE
    /\ headers_in = EmptyDict
    /\ caller_params = EmptyDict
    /\ params_given = FALSE
    /\ params_in = EmptyDict
    /\ request_params = EmptyDict
    /\ session = "none"
    /\ session_headers = EmptyDict
    /\ i = 0
    /\ requests = 0
    /\ trace = <<>>
    /\ interps = <<>>
    /\ log = <<>>
    /\ sleeps = 0
    /\ events = <<>>
    /\ outcome = NoOutcome

(***************************************************************************)
(* Two calls outstanding together on one client.  Every local of _get and  *)
(* __retry lives in the coroutine of its call; the ClientSession is        *)
(* created by the call.                                                    *)
(***************************************************************************)
CallIds == {"A", "B"}

IdleCall ==
    [i |-> 0, pc |-> "idle", session |-> 0, requests |-> 0, trace |-> <<>>,
     sleeps |-> 0, outcome |-> NoOutcome]

ConcIdle ==
    /\ calls = [c \in CallIds |-> IdleCall]
    /\ created = 0
    /\ open_sessions = {}

(***************************************************************************)
(* The resource facades (pytonapi.tonapi.methods).  Arguments and query    *)
(* values are Python values of several types, tagged to stay comparable.   *)
(***************************************************************************)
PyNone == [s |-> "", t |-> "none", n |-> 0]
PyInt(n) == [s |-> "", t |-> "int", n |-> n]
PyStr(s) == [s |-> s, t |-> "str", n |-> 0]
PyBool(b) == [s |-> "", t |-> "bool", n |-> IF b THEN 1 ELSE 0]

\* Truth value of an argument in `if x:`.
PyTruthy(x) ==
    CASE x.t = "none" -> FALSE
      [] x.t = "int" -> x.n # 0
      [] x.t = "bool" -> x.n = 1
      [] OTHER -> x.s # ""

\* d[name] = value on a dict.
DictSet(d, name, value) ==
    [k \in DOMAIN d \cup {name} |-> IF k = name THEN value ELSE d[k]]

NoQuery == [params |-> EmptyDict, facade |-> "none", path |-> "", args |-> EmptyDict]

NoResult == [kind |-> "none", val |-> NoValue, items |-> <<>>]

FacadeIdle ==
    /\ query = NoQuery
    /\ fpc = "idle"
    /\ nft_args = [collection |-> PyNone, indirect_ownership |-> PyBool(TRUE)]
    /\ nft_items = <<>>
    /\ offset = 0
    /\ page_log = <<>>
    /\ page_sizes = <<>>
    /\ raised = NoOutcome
    /\ nft_result = NoResult
    /\ owned = 0

Init ==
    /\ ConcIdle
    /\ FacadeIdle
    /\ \E key \in ApiKeys, net \in BOOLEAN, retries \in 0..MaxRetries :
          ClientInit(key, net, retries)
    /\ caller_headers \in CallerHeaderMaps
    /\ CallIdle

\* _get / _post up to the first request: the headers are merged, the session is
\* opened with them and __retry is entered.
Begin(v, withHeaders, p) ==
    /\ pc = "idle"
    /\ verb' = v
    /\ params_given' = p.given
    /\ params_in' = p.map
    /\ request_params' = CopyParams(p.map, p.given)
    /\ caller_params' = IF p.given THEN CallerParamsAfterCopy(p.map) ELSE p.map
    /\ passed' = withHeaders
    /\ headers_in' = IF withHeaders THEN caller_headers ELSE EmptyDict
    /\ caller_headers' =
          IF withHeaders THEN MergeHeaders(caller_headers, TRUE, client_headers)
          ELSE caller_headers
    /\ session_headers' = EffectiveHeaders(caller_headers', withHeaders, client_headers)
    /\ client_headers' = ClientHeadersAfterMerge(caller_headers, withHeaders, client_headers)
    /\ session' = "open"
    /\ i' = 0
    /\ pc' = "loop"
    /\ UNCHANGED <<api_key, testnet, max_retries, base_url, requests, trace, interps,
                   log, sleeps, events, outcome, conc, facade>>

\* The loop issues the request of attempt i + 1.
Send ==
    /\ pc = "loop"
    /\ RangeHasNext(i, max_retries)
    /\ requests' = requests + 1
    /\ events' = Append(events, "request")
    /\ pc' = "await"
    /\ UNCHANGED <<client, caller_headers, facade, conc, params_state, verb, passed, headers_in, session,
                   session_headers, i, trace, interps, log, sleeps, outcome>>

\* range() is exhausted: raise TONAPITooManyRequestsError, which leaves the
\* session's context manager.
Exhaust ==
    /\ pc = "loop"
    /\ ~RangeHasNext(i, max_retries)
    /\ outcome' = ExhaustedError
    /\ session' = "closed"
    /\ pc' = "done"
    /\ UNCHANGED <<client, caller_headers, facade, conc, params_state, verb, passed, headers_in, session_headers,
                   i, requests, trace, interps, log, sleeps, events>>

\* The response of the pending request arrives and is interpreted.
Receive(r) ==
    /\ pc = "await"
    /\ trace' = Append(trace, r)
    /\ interps' = Append(interps, ProcessResponse(r))
    /\ events' = events \o ResponseEvents(IsRetried(ProcessResponse(r)))
    /\ IF IsRetried(ProcessResponse(r))
       THEN /\ log' = Append(log, <<i + 1, max_retries>>)
            /\ IF SleepFollows(i, max_retries)
               THEN pc' = "sleep" /\ i' = i
               ELSE pc' = "loop" /\ i' = i + 1
            /\ UNCHANGED <<session, outcome>>
       ELSE /\ outcome' = ProcessResponse(r)
            /\ session' = "closed"
            /\ pc' = "done"
            /\ UNCHANGED <<log, i>>
    /\ UNCHANGED <<client, caller_headers, facade, conc, params_state, verb, passed, headers_in, session_headers,
                   requests, sleeps>>

\* asyncio.sleep(1) is over; the loop takes the next i.
Sleep ==
    /\ pc = "sleep"
    /\ sleeps' = sleeps + 1
    /\ events' = Append(events, "sleep")
    /\ i' = i + 1
    /\ pc' = "loop"
    /\ UNCHANGED <<client, caller_headers, facade, conc, params_state, verb, passed, headers_in, session,
                   session_headers, requests, trace, interps, log, outcome>>

\* The caller has the outcome; the client is ready for its next call.
Finish ==
    /\ pc = "done"
    /\ pc' = "idle"
    /\ verb' = "GET"
    /\ passed' = FALSE
    /\ headers_in' = EmptyDict
    /\ caller_params' = EmptyDict
    /\ params_given' = FALSE
    /\ params_in' = EmptyDict
    /\ request_params' = EmptyDict
    /\ session' = "none"
    /\ session_headers' = EmptyDict
    /\ i' = 0
    /\ requests' = 0
    /\ trace' = <<>>
    /\ interps' = <<>>
    /\ log' = <<>>
    /\ sleeps' = 0
    /\ events' = <<>>
    /\ outcome' = NoOutcome
    /\ UNCHANGED <<client, caller_headers, facade, conc>>

Next ==
    \/ \E v \in Verbs, withHeaders \in BOOLEAN, p \in ParamArgs : Begin(v, withHeaders, p)
    \/ Send
    \/ Exhaust
    \/ \E r \in Responses : Receive(r)
    \/ Sleep
    \/ Finish

Spec == Init /\ [][Next]_vars

(***************************************************************************)
(* The same operations for calls that are outstanding together.  A step is *)
(* what one coroutine does between two suspension points; the event loop   *)
(* runs the steps of the calls in any order.                               *)
(***************************************************************************)
\* The responses the server gives to outstanding calls: a rate limit, a
\* success, an error with a non-JSON body, a JSON body that is no object.
ConcResponses ==
    { r \in Responses :
        \/ r.status = 429 /\ r.body.id = "obj_error"
        \/ r.status = 200 /\ r.body.id = "obj_plain"
        \/ r.status = 404 /\ r.body.id = "text"
        \/ r.status = 200 /\ r.body.id = "array" }

\* Variant: one session is kept and handed to every call.
NewSessionId_Pooled(n) == 1

\* aiohttp.ClientSession(headers=headers): a new object for every call.
NewSessionId(n) == n + 1

\* Variant: the attempt counter is kept on the client instance, so every
\* call's retries count into it.
LoopIndex_Shared(cs, c) == cs["A"].i + cs["B"].i

\* i is a local of the coroutine __retry: a call reads its own.
LoopIndex(cs, c) == cs[c].i

CBegin(c) ==
    /\ calls[c].pc = "idle"
    /\ calls' = [calls EXCEPT ![c].pc = "loop", ![c].i = 0,
                              ![c].session = NewSessionId(created)]
    /\ created' = created + 1
    /\ open_sessions' = open_sessions \cup {NewSessionId(created)}
    /\ UNCHANGED <<client, caller_headers, facade, call>>

CSend(c) ==
    /\ calls[c].pc = "loop"
    /\ RangeHasNext(LoopIndex(calls, c), max_retries)
    /\ calls' = [calls EXCEPT ![c].pc = "await", ![c].requests = @ + 1]
    /\ UNCHANGED <<client, caller_headers, facade, call, created, open_sessions>>

CExhaust(c) ==
    /\ calls[c].pc = "loop"
    /\ ~RangeHasNext(LoopIndex(calls, c), max_retries)
    /\ calls' = [calls EXCEPT ![c].pc = "done",
                              ![c].outcome = TONAPITooManyRequestsError(NoValue)]
    /\ open_sessions' = open_sessions \ {calls[c].session}
    /\ UNCHANGED <<client, caller_headers, facade, call, created>>

CReceive(c, r) ==
    /\ calls[c].pc = "await"
    /\ IF IsRetried(ProcessResponse(r))
       THEN /\ calls' = [calls EXCEPT ![c].pc = "sleep", ![c].trace = Append(@, r)]
            /\ UNCHANGED open_sessions
       ELSE /\ calls' = [calls EXCEPT ![c].pc = "done", ![c].trace = Append(@, r),
                                     ![c].outcome = ProcessResponse(r)]
            /\ open_sessions' = open_sessions \ {calls[c].session}
    /\ UNCHANGED <<client, caller_headers, facade, call, created>>

CSleep(c) ==
    /\ calls[c].pc = "sleep"
    /\ calls' = [calls EXCEPT ![c].pc = "loop", ![c].i = @ + 1, ![c].sleeps = @ + 1]
    /\ UNCHANGED <<client, caller_headers, facade, call, created, open_sessions>>

NextConc ==
    \/ \E c \in CallIds : CBegin(c)
    \/ \E c \in CallIds : CSend(c)
    \/ \E c \in CallIds : CExhaust(c)
    \/ \E c \in CallIds, r \in ConcResponses : CReceive(c, r)
    \/ \E c \in CallIds : CSleep(c)

SpecConc == Init /\ [][NextConc]_vars

(***************************************************************************)
(* AccountMethod.get_nfts and AccountMethod.get_all_nfts.                  *)
(***************************************************************************)
MaxPages == 3

\* limit of get_all_nfts.
PageLimit == 1000

Account == "acc"

\* Lengths of result.nft_items the server may answer a page request with.
PageSizes == {0, 400, PageLimit, PageLimit + 1}

\* The items of the page requested at offset, n of them.
Page(start, n) == [j \in 1..n |-> start + j]

\* What self._get raises inside get_nfts: every error of the transport core.
PageErrors ==
    {o \in {ProcessResponse(r) : r \in Responses} \cup {ExhaustedError} :
        o.kind # "return"}

GetNftsArgs(limit, start, collection, indirect_ownership) ==
    [name \in {"limit", "offset", "collection", "indirect_ownership"} |->
        CASE name = "limit" -> limit
          [] name = "offset" -> start
          [] name = "collection" -> collection
          [] OTHER -> indirect_ownership]

GetNftsParams(limit, start, collection, indirect_ownership) ==
    LET params == [name \in {"limit", "offset", "indirect_ownership"} |->
                      CASE name = "limit" -> limit
                        [] name = "offset" -> start
                        [] OTHER -> IF PyTruthy(indirect_ownership)
                                    THEN PyStr("true") ELSE PyStr("false")]
    IN  IF PyTruthy(collection)
        THEN DictSet(params, "collection", collection)
        ELSE params

GetNftsQuery(limit, start, collection, indirect_ownership) ==
    [params |-> GetNftsParams(limit, start, collection, indirect_ownership),
     facade |-> "get_nfts",
     path |-> "v2/accounts/" \o Account \o "/nfts",
     args |-> GetNftsArgs(limit, start, collection, indirect_ownership)]

\* The get_nfts call of one loop iteration.
PageQuery(start, args) ==
    GetNftsQuery(PyInt(PageLimit), PyInt(start), args.collection, args.indirect_ownership)

LastPage_Empty(n, limit) == n = 0

\* if len(result.nft_items) != limit: break
LastPage(n, limit) == n # limit

NextOffset_Unchanged(start, n, limit) == start

\* offset += limit
NextOffset(start, n, limit) == start + limit

AfterPageError_PartialList(e, items) == [kind |-> "return", val |-> NoValue, items |-> items]

\* Nothing in get_all_nfts or get_nfts catches: the error is the call's result.
AfterPageError(e, items) == [kind |-> e.kind, val |-> e.val, items |-> <<>>]

Collections == {PyNone, PyStr(""), PyStr("c")}

AllNftsEnter(collection, indirect_ownership) ==
    /\ fpc = "idle"
    /\ query = NoQuery
    /\ fpc' = "fetch"
    /\ nft_args' = [collection |-> collection, indirect_ownership |-> indirect_ownership]
    /\ nft_items' = <<>>
    /\ offset' = 0
    /\ page_log' = <<>>
    /\ page_sizes' = <<>>
    /\ raised' = NoOutcome
    /\ nft_result' = NoResult
    /\ query' = NoQuery
    /\ UNCHANGED <<client, caller_headers, call, conc>>

\* get_all_nfts is called; the server answers as it likes.
AllNftsBegin(collection, indirect_ownership) ==
    /\ AllNftsEnter(collection, indirect_ownership)
    /\ UNCHANGED owned

PageReturns(n) ==
    /\ fpc = "fetch"
    /\ Len(page_log) < MaxPages
    /\ query' = PageQuery(offset, nft_args)
    /\ page_log' = Append(page_log, query')
    /\ page_sizes' = Append(page_sizes, n)
    /\ nft_items' = nft_items \o Page(offset, n)
    /\ offset' = NextOffset(offset, n, PageLimit)
    /\ IF LastPage(n, PageLimit)
       THEN /\ fpc' = "done"
            /\ nft_result' = [kind |-> "return", val |-> NoValue, items |-> nft_items']
       ELSE /\ fpc' = "fetch"
            /\ nft_result' = nft_result
    /\ UNCHANGED <<client, caller_headers, call, conc, nft_args, raised, owned>>

PageRaises(e) ==
    /\ fpc = "fetch"
    /\ Len(page_log) < MaxPages
    /\ query' = PageQuery(offset, nft_args)
    /\ page_log' = Append(page_log, query')
    /\ raised' = e
    /\ nft_result' = AfterPageError(e, nft_items)
    /\ fpc' = "done"
    /\ UNCHANGED <<client, caller_headers, call, conc, nft_args, nft_items, offset,
                   page_sizes, owned>>

\* The call is over: its locals are gone.
AllNftsReturned ==
    /\ fpc = "done"
    /\ fpc' = "idle"
    /\ query' = NoQuery
    /\ nft_args' = [collection |-> PyNone, indirect_ownership |-> PyBool(TRUE)]
    /\ nft_items' = <<>>
    /\ offset' = 0
    /\ page_log' = <<>>
    /\ page_sizes' = <<>>
    /\ raised' = NoOutcome
    /\ nft_result' = NoResult
    /\ owned' = 0
    /\ UNCHANGED <<client, caller_headers, call, conc>>

\* Arguments tried for an int parameter; the defaults 0, 100 and 1000 are among them.
ArgInts == {PyNone, PyInt(0), PyInt(5), PyInt(100), PyInt(1000)}

\* Arguments tried for subject_only.
ArgFlags == {PyNone, PyBool(FALSE), PyBool(TRUE)}

\* The parameter defaults of the signatures.
Defaults(method) ==
    CASE method = "get_nfts" ->
            GetNftsArgs(PyInt(1000), PyInt(0), PyNone, PyBool(FALSE))
      [] method = "get_events" ->
            [name \in {"limit", "before_lt", "subject_only", "start_date", "end_date"} |->
                CASE name = "limit" -> PyInt(100)
                  [] name = "subject_only" -> PyBool(FALSE)
                  [] OTHER -> PyNone]
      [] OTHER ->
            [name \in {"after_lt", "before_lt", "limit"} |->
                CASE name = "after_lt" -> PyNone
                  [] name = "before_lt" -> PyInt(0)
                  [] OTHER -> PyInt(100)]

\* params with name set to value when the condition of its `if` holds.
SetIf(cond, params, name, value) == IF cond THEN DictSet(params, name, value) ELSE params

GetEventsParams_NotNone(limit, before_lt, subject_only, start_date, end_date) ==
    SetIf(end_date # PyNone, SetIf(start_date # PyNone,
        SetIf(subject_only # PyNone, SetIf(before_lt # PyNone,
            [name \in {"limit"} |-> limit],
            "before_lt", before_lt), "subject_only", PyStr("true")),
        "start_date", start_date), "end_date", end_date)

GetEventsParams(limit, before_lt, subject_only, start_date, end_date) ==
    SetIf(PyTruthy(end_date), SetIf(PyTruthy(start_date),
        SetIf(PyTruthy(subject_only), SetIf(PyTruthy(before_lt),
            [name \in {"limit"} |-> limit],
            "before_lt", before_lt), "subject_only", PyStr("true")),
        "start_date", start_date), "end_date", end_date)

GetEvents(limit, before_lt, subject_only, start_date, end_date) ==
    /\ fpc = "idle"
    /\ query = NoQuery
    /\ query' =
          [params |-> GetEventsParams(limit, before_lt, subject_only, start_date, end_date),
           facade |-> "get_events",
           path |-> "v2/accounts/" \o Account \o "/events",
           args |-> [name \in {"limit", "before_lt", "subject_only", "start_date",
                               "end_date"} |->
                        CASE name = "limit" -> limit
                          [] name = "before_lt" -> before_lt
                          [] name = "subject_only" -> subject_only
                          [] name = "start_date" -> start_date
                          [] OTHER -> end_date]]
    /\ UNCHANGED <<client, caller_headers, call, conc, fpc, nft_args, nft_items,
                   offset, page_log, page_sizes, raised, nft_result, owned>>

GetAccountTransactionsParams(after_lt, before_lt, limit) ==
    SetIf(PyTruthy(after_lt),
          [name \in {"before_lt", "limit"} |-> IF name = "limit" THEN limit ELSE before_lt],
          "after_lt", after_lt)

\* The non-blocking BlockchainMethod.get_account_transactions: its path and
\* its params.
AsyncGetAccountTransactionsPath(account_id) ==
    "v2/blockchain/accounts/" \o account_id \o "/transactions"

AsyncGetAccountTransactionsParams(after_lt, before_lt, limit) ==
    SetIf(after_lt # PyNone,
          [name \in {"before_lt", "limit"} |-> IF name = "limit" THEN limit ELSE before_lt],
          "after_lt", after_lt)

GetAccountTransactions(after_lt, before_lt, limit) ==
    /\ fpc = "idle"
    /\ query = NoQuery
    /\ query' =
          [params |-> GetAccountTransactionsParams(after_lt, before_lt, limit),
           facade |-> "get_account_transactions",
           path |-> "v2/blockchain/accounts/" \o Account \o "/transactions",
           args |-> [name \in {"after_lt", "before_lt", "limit"} |->
                        CASE name = "after_lt" -> after_lt
                          [] name = "before_lt" -> before_lt
                          [] OTHER -> limit]]
    /\ UNCHANGED <<client, caller_headers, call, conc, fpc, nft_args, nft_items,
                   offset, page_log, page_sizes, raised, nft_result, owned>>

GetNfts(limit, start, collection, indirect_ownership) ==
    /\ fpc = "idle"
    /\ query = NoQuery
    /\ query' = GetNftsQuery(limit, start, collection, indirect_ownership)
    /\ UNCHANGED <<client, caller_headers, call, conc, fpc, nft_args, nft_items,
                   offset, page_log, page_sizes, raised, nft_result, owned>>

\* self._get has answered and the single-request method has returned.
QueryReturned ==
    /\ fpc = "idle"
    /\ query # NoQuery
    /\ query' = NoQuery
    /\ UNCHANGED <<client, caller_headers, call, conc, fpc, nft_args, nft_items,
                   offset, page_log, page_sizes, raised, nft_result, owned>>

NextFacade ==
    \/ \E c \in Collections, b \in BOOLEAN : AllNftsBegin(c, PyBool(b))
    \/ \E n \in PageSizes : PageReturns(n)
    \/ \E e \in PageErrors : PageRaises(e)
    \/ AllNftsReturned
    \/ \E l \in ArgInts, o \in ArgInts, c \in Collections, b \in BOOLEAN :
          GetNfts(l, o, c, PyBool(b))
    \/ \E l, lt, sd, ed \in ArgInts, so \in ArgFlags :
          GetEvents(l, lt, so, sd, ed)
    \/ \E after_lt, before_lt, l \in ArgInts : GetAccountTransactions(after_lt, before_lt, l)
    \/ QueryReturned

SpecFacade == Init /\ [][NextFacade]_vars

(***************************************************************************)
(* get_all_nfts against a server that holds finitely many items of the     *)
(* account and honours offset and limit.                                   *)
(***************************************************************************)
\* Item counts tried: those the MaxPages requests of the model can fetch.
Totals ==
    {t \in {0, 1, 400, 999, 1000, 1001, 1999, 2000, 2400, 2999, 3000, 3400, 3999} :
        t < MaxPages * PageLimit}

\* Length of the page such a server returns for offset and limit.
ServerPageLength(total, start, limit) ==
    IF total <= start THEN 0
    ELSE IF total - start < limit THEN total - start ELSE limit

AllNftsBeginOwning(total, collection, indirect_ownership) ==
    /\ AllNftsEnter(collection, indirect_ownership)
    /\ owned' = total

ServePage == PageReturns(ServerPageLength(owned, offset, PageLimit))

NextAllNfts ==
    \/ \E t \in Totals, c \in Collections, b \in BOOLEAN :
          AllNftsBeginOwning(t, c, PyBool(b))
    \/ ServePage
    \/ AllNftsReturned

\* The loop of get_all_nfts is synchronous code that runs on, and the server
\* answers every request.
SpecAllNfts == Init /\ [][NextAllNfts]_vars /\ WF_vars(ServePage)

TypeOK ==
    /\ pc \in {"idle", "loop", "await", "sleep", "done"}
    /\ max_retries \in 0..MaxRetries
    /\ i \in 0..max_retries
    /\ requests \in 0..max_retries
    /\ Len(trace) <= requests
    /\ Len(interps) = Len(trace)

(***************************************************************************)
(* Helpers of the properties.                                              *)
(***************************************************************************)
\* Every response the call received so far had status 429.
All429 == \A k \in 1..Len(trace) : trace[k].status = 429

\* The call was answered at least once and its latest response is r.
LastResponse == trace[Len(trace)]

\* The caller passed a mapping that holds an Authorization entry.
CallerSentAuthorization == passed /\ "Authorization" \in DOMAIN headers_in

(***************************************************************************)
(* C1.  With max_retries = N >= 1 and a server that answers every request  *)
(* with status 429, a call issues exactly N requests and then fails with   *)
(* TONAPITooManyRequestsError.                                             *)
(***************************************************************************)
C1_Always429ExactlyNAttempts ==
    (pc = "done" /\ max_retries >= 1 /\ All429) =>
        (requests = max_retries /\ outcome.kind = "TONAPITooManyRequestsError")

C3_OnlyRateLimitRetried ==
    \A k \in 1..Len(trace) :
        trace[k].status # 429 =>
            /\ k = Len(trace)
            /\ pc = "done"
            /\ session = "closed"
            /\ outcome = interps[k]
            /\ requests = k
            /\ sleeps + 1 = k
            /\ Len(log) + 1 = k

C3_Witness ==
    /\ pc = "done"
    /\ Len(trace) = 1
    /\ trace[1].status = 500
    /\ outcome.kind = "TONAPIInternalServerError"
    /\ max_retries > 1
    /\ requests = 1
    /\ sleeps = 0

(***************************************************************************)
(* C4.  Response interpretation is a total function of the status: 200     *)
(* yields the payload, 400, 401, 404, 429 and 500 their error class, every *)
(* other status the base TONAPIError; a payload is returned only for 200.  *)
(***************************************************************************)
ExpectedKind(status_code) ==
    CASE status_code = 200 -> "return"
      [] status_code = 400 -> "TONAPIBadRequestError"
      [] status_code = 401 -> "TONAPIUnauthorizedError"
      [] status_code = 404 -> "TONAPINotFoundError"
      [] status_code = 429 -> "TONAPITooManyRequestsError"
      [] status_code = 500 -> "TONAPIInternalServerError"
      [] OTHER -> "TONAPIError"

C4_StatusDecidesOutcome ==
    \A k \in 1..Len(trace) :
        /\ interps[k].kind = ExpectedKind(trace[k].status)
        /\ interps[k].kind = "return" => trace[k].status = 200

C6_DefaultAuthorizationAdded ==
    pc # "idle" =>
        /\ (passed /\ headers_in # EmptyDict /\ "Authorization" \notin DOMAIN headers_in) =>
              /\ DOMAIN session_headers = DOMAIN headers_in \cup {"Authorization"}
              /\ \A n \in DOMAIN headers_in : session_headers[n] = headers_in[n]
              /\ session_headers["Authorization"] = "Bearer " \o api_key
        /\ (~passed \/ headers_in = EmptyDict) =>
              /\ DOMAIN session_headers = {"Authorization"}
              /\ session_headers["Authorization"] = "Bearer " \o api_key

C6_Witness ==
    /\ pc = "await"
    /\ passed
    /\ DOMAIN headers_in = {"Accept-Language"}
    /\ DOMAIN session_headers = {"Accept-Language", "Authorization"}
    /\ session_headers["Accept-Language"] = "en"

(***************************************************************************)
(* C7.  A 200 response whose body is not JSON ends the call with success   *)
(* and the payload True.                                                   *)
(***************************************************************************)
C7_NonJson200ReturnsTrue ==
    \A k \in 1..Len(trace) :
        (trace[k].status = 200 /\ trace[k].body.form = "text") =>
            /\ pc = "done"
            /\ outcome = [kind |-> "return", val |-> [t |-> "bool", v |-> "true"]]

C7_Witness ==
    /\ pc = "done"
    /\ Len(trace) >= 1
    /\ LastResponse.status = 200
    /\ LastResponse.body.form = "text"
    /\ outcome.kind = "return"

(***************************************************************************)
(* C8 as stated.  A response with a status other than 200 whose body is    *)
(* not JSON is treated as a success that returns False.                    *)
(***************************************************************************)
C8_NonJsonErrorReturnsFalse ==
    \A k \in 1..Len(trace) :
        (trace[k].status # 200 /\ trace[k].body.form = "text") =>
            interps[k] = [kind |-> "return", val |-> [t |-> "bool", v |-> "false"]]

(***************************************************************************)
(* C8 as amended.  A response with a status other than 200 whose body is   *)
(* not JSON is never a success and False is never returned: the status     *)
(* mapping takes precedence over the placeholder.  400, 500 and the        *)
(* unmapped statuses raise their error with the raw text, 401 and 404      *)
(* their fixed message, 429 TONAPITooManyRequestsError.                    *)
(***************************************************************************)
C8_NonJsonErrorStillRaises ==
    /\ outcome # [kind |-> "return", val |-> [t |-> "bool", v |-> "false"]]
    /\ \A k \in 1..Len(trace) :
          (trace[k].status # 200 /\ trace[k].body.form = "text") =>
              /\ interps[k].kind = ExpectedKind(trace[k].status)
              /\ interps[k].kind \in TONAPIErrors
              /\ trace[k].status \notin {401, 404, 429} =>
                    interps[k].val = Str(trace[k].body.text)
              /\ trace[k].status = 401 => interps[k].val = Str(UnauthorizedMessage)
              /\ trace[k].status = 404 => interps[k].val = Str(NotFoundMessage)

C8_Witness ==
    /\ pc = "done"
    /\ Len(trace) = 1
    /\ trace[1].status = 404
    /\ trace[1].body.form = "text"
    /\ outcome.kind = "TONAPINotFoundError"

(***************************************************************************)
(* C9.  Every call ends with a returned payload or with one error of the   *)
(* TONAPIError hierarchy, whatever the server sends.                       *)
(***************************************************************************)
C9_ClosedTaxonomy ==
    pc = "done" => outcome.kind \in {"return"} \cup TONAPIErrors

(***************************************************************************)
(* C10.  Messages of the mapped errors: 401 and 404 carry their fixed      *)
(* message; 400 and 500 carry what the server supplied, the 'error' field  *)
(* of the decoded object when present, else the whole decoded object (the  *)
(* raw text when the body is not JSON); 429 carries the same, or the fixed *)
(* fallback when that is empty.                                            *)
(***************************************************************************)
Supplied(body) ==
    CASE body.form = "object" /\ body.has_error -> Str(body.error)
      [] body.form = "object" /\ ~body.has_error -> Json(body.id)
      [] OTHER -> Str(body.text)

C10_MessageContract ==
    \A k \in 1..Len(trace) :
        interps[k].kind \in TONAPIErrors =>
            /\ trace[k].status = 401 =>
                  interps[k] = [kind |-> "TONAPIUnauthorizedError", val |-> Str(UnauthorizedMessage)]
            /\ trace[k].status = 404 =>
                  interps[k] = [kind |-> "TONAPINotFoundError", val |-> Str(NotFoundMessage)]
            /\ trace[k].status = 400 =>
                  interps[k] = [kind |-> "TONAPIBadRequestError", val |-> Supplied(trace[k].body)]
            /\ trace[k].status = 500 =>
                  interps[k] = [kind |-> "TONAPIInternalServerError", val |-> Supplied(trace[k].body)]
            /\ trace[k].status = 429 =>
                  interps[k] =
                      [kind |-> "TONAPITooManyRequestsError",
                       val |-> IF Supplied(trace[k].body) = Str("")
                               THEN Str(TooManyRequestsMessage)
                               ELSE Supplied(trace[k].body)]

C10_Witness ==
    /\ Len(trace) = 2
    /\ trace[1].status = 429
    /\ trace[1].body.id = "text_empty"
    /\ interps[1].val = Str(TooManyRequestsMessage)
    /\ trace[2].status = 400
    /\ trace[2].body.id = "obj_error"
    /\ interps[2] = [kind |-> "TONAPIBadRequestError", val |-> Str("boom")]

(***************************************************************************)
(* C11.  A TONAPITooManyRequestsError reaches the caller only when all     *)
(* max_retries attempts were answered with 429, and it then carries the    *)
(* fixed fallback text, not the error text of the last or of any 429       *)
(* response.                                                               *)
(***************************************************************************)
C11_ExhaustionCarriesFallback ==
    (pc = "done" /\ outcome.kind = "TONAPITooManyRequestsError") =>
        /\ Len(trace) = max_retries
        /\ All429
        /\ outcome.val = Str(TooManyRequestsMessage)

C11_Witness ==
    /\ pc = "done"
    /\ max_retries = 2
    /\ Len(trace) = 2
    /\ trace[1].body.id = "text"
    /\ trace[2].body.id = "obj_error"
    /\ interps[2].val = Str("boom")
    /\ outcome = [kind |-> "TONAPITooManyRequestsError", val |-> Str(TooManyRequestsMessage)]

(***************************************************************************)
(* C12.  A call never mutates the mapping the caller passed as params (of  *)
(* _get) or body (of _post): at every point of the call and on every exit  *)
(* path it holds the keys and values it held when the call began; the      *)
(* request carries a copy of it, or an empty mapping when none was given.  *)
(***************************************************************************)
C12_ParamsNotMutated ==
    pc # "idle" =>
        /\ caller_params = params_in
        /\ request_params = IF params_given THEN params_in ELSE EmptyDict

C12_Witness ==
    /\ pc = "done"
    /\ verb = "POST"
    /\ params_given
    /\ DOMAIN params_in = {"limit"}
    /\ caller_params = params_in
    /\ outcome.kind = "TONAPITooManyRequestsError"
    /\ requests = 2

(***************************************************************************)
(* C13.  The client's configuration is immutable after construction: no    *)
(* step of any call changes the api key, the testnet flag, max_retries,    *)
(* the default headers or the base URL; the default headers are exactly    *)
(* 'Authorization: Bearer <api_key>' and the base URL is                   *)
(* 'https://testnet.tonapi.io/' for testnet, 'https://tonapi.io/'          *)
(* otherwise.                                                              *)
(***************************************************************************)
C13_ConfigAsConstructed ==
    /\ DOMAIN client_headers = {"Authorization"}
    /\ client_headers["Authorization"] = "Bearer " \o api_key
    /\ base_url = IF testnet THEN "https://testnet.tonapi.io/" ELSE "https://tonapi.io/"

C13_ConfigImmutable ==
    /\ []C13_ConfigAsConstructed
    /\ [][client' = client]_vars

C13_Witness ==
    /\ pc = "done"
    /\ testnet
    /\ base_url = "https://testnet.tonapi.io/"
    /\ passed
    /\ "Authorization" \in DOMAIN headers_in
    /\ caller_headers # headers_in
    /\ client_headers["Authorization"] = "Bearer key1"
    /\ outcome.kind = "return"

(***************************************************************************)
(* C14.  Calls outstanding together do not interfere: in every             *)
(* interleaving of their steps a completed call has issued the number of   *)
(* requests and has the outcome it would have had alone against the        *)
(* responses to its own requests; a call's loop index counts its own 429   *)
(* responses only.                                                         *)
(***************************************************************************)
RECURSIVE Alone(_, _, _)
\* The call run by itself against resps, after k answered attempts.
Alone(n, resps, k) ==
    IF ~(k < n)
    THEN [requests |-> k,
          outcome |-> [kind |-> "TONAPITooManyRequestsError", val |-> Str(TooManyRequestsMessage)],
          finished |-> TRUE]
    ELSE IF Len(resps) < k + 1
         THEN [requests |-> k + 1, outcome |-> NoOutcome, finished |-> FALSE]
         ELSE IF ProcessResponse(resps[k + 1]).kind = "TONAPITooManyRequestsError"
              THEN Alone(n, resps, k + 1)
              ELSE [requests |-> k + 1, outcome |-> ProcessResponse(resps[k + 1]),
                    finished |-> TRUE]

Count429(resps) == Cardinality({k \in 1..Len(resps) : resps[k].status = 429})

C14_CallsDoNotInterfere ==
    \A c \in CallIds :
        /\ calls[c].pc = "done" =>
              /\ Alone(max_retries, calls[c].trace, 0).finished
              /\ calls[c].requests = Alone(max_retries, calls[c].trace, 0).requests
              /\ calls[c].outcome = Alone(max_retries, calls[c].trace, 0).outcome
        /\ calls[c].pc \in {"loop", "await"} => calls[c].i = Count429(calls[c].trace)
        /\ calls[c].requests <= Len(calls[c].trace) + 1

C14_Witness ==
    /\ max_retries = 3
    /\ calls["A"].pc = "done"
    /\ calls["A"].requests = 3
    /\ calls["A"].outcome.kind = "return"
    /\ calls["B"].pc = "sleep"
    /\ calls["B"].requests = 2

(***************************************************************************)
(* C15.  Each call opens exactly one session, however many attempts it     *)
(* makes; the session is open while the call runs and closed when the call *)
(* has completed, on every exit path; no session belongs to two calls.     *)
(***************************************************************************)
C15_OneSessionPerCall ==
    /\ created = Cardinality({c \in CallIds : calls[c].pc # "idle"})
    /\ \A c \in CallIds :
          /\ calls[c].pc = "idle" => calls[c].session = 0
          /\ calls[c].pc \in {"loop", "await", "sleep"} => calls[c].session \in open_sessions
          /\ calls[c].pc = "done" =>
                calls[c].session \in 1..created /\ calls[c].session \notin open_sessions
    /\ \A c, d \in CallIds :
          (c # d /\ calls[c].session # 0) => calls[c].session # calls[d].session

C15_Witness ==
    /\ calls["A"].pc = "done"
    /\ calls["A"].requests = 3
    /\ calls["A"].outcome.kind = "AttributeError"
    /\ calls["B"].pc = "await"
    /\ calls["B"].session \in open_sessions
    /\ calls["A"].session \notin open_sessions
    /\ created = 2

\* The items get_all_nfts has been given by its first k page requests, in order.
RECURSIVE PagesFetched(_)
PagesFetched(k) ==
    IF k = 0 THEN <<>>
    ELSE PagesFetched(k - 1) \o Page(page_log[k].params["offset"].n, page_sizes[k])

(***************************************************************************)
(* C16.  get_all_nfts requests pages with limit 1000 at offsets 0, 1000,   *)
(* 2000, ... in that order; a request follows only pages of length 1000    *)
(* and the call returns right after the first page of another length; what *)
(* it returns is the concatenation, in order, of every page fetched.  For  *)
(* pages of sizes 1000, 1000, 400 it returns 2400 items after 3 requests.  *)
(***************************************************************************)
C16_PaginationContract ==
    /\ \A k \in 1..Len(page_log) :
          /\ page_log[k].facade = "get_nfts"
          /\ page_log[k].params["limit"] = PyInt(1000)
          /\ page_log[k].params["offset"] = PyInt(1000 * (k - 1))
          /\ \A j \in 1..(k - 1) : page_sizes[j] = 1000
    /\ (page_sizes # <<>> /\ page_sizes[Len(page_sizes)] # 1000) =>
          /\ fpc = "done"
          /\ nft_result.kind = "return"
          /\ Len(page_log) = Len(page_sizes)
    /\ nft_result.kind = "return" =>
          /\ page_sizes # <<>>
          /\ page_sizes[Len(page_sizes)] # 1000
          /\ nft_result.items = PagesFetched(Len(page_sizes))
    /\ page_sizes = <<1000, 1000, 400>> =>
          /\ Len(nft_result.items) = 2400
          /\ Len(page_log) = 3

C16_Witness ==
    /\ fpc = "done"
    /\ page_sizes = <<1000, 1000, 400>>
    /\ Len(page_log) = 3
    /\ nft_result.kind = "return"
    /\ Len(nft_result.items) = 2400
    /\ nft_result.items[1001] = 1001
    /\ nft_result.items[2400] = 2400

(***************************************************************************)
(* C17.  When a page request of get_all_nfts raises, on the first page or  *)
(* on a later one, get_all_nfts raises that same error: the failed request *)
(* is its last one and the pages fetched before are not returned.          *)
(***************************************************************************)
C17_PageErrorPropagates ==
    raised # NoOutcome =>
        /\ fpc = "done"
        /\ nft_result.kind = raised.kind
        /\ nft_result.val = raised.val
        /\ nft_result.items = <<>>
        /\ Len(page_log) = Len(page_sizes) + 1
        /\ \A k \in 1..Len(page_sizes) : page_sizes[k] = 1000

C17_Witness ==
    /\ fpc = "done"
    /\ page_sizes = <<1000, 1000>>
    /\ Len(nft_items) = 2000
    /\ Len(page_log) = 3
    /\ raised = TONAPINotFoundError
    /\ nft_result.kind = "TONAPINotFoundError"

\* The parameters a method puts in its query before any `if`.
AlwaysSent(method) ==
    CASE method = "get_nfts" -> {"limit", "offset", "indirect_ownership"}
      [] method = "get_events" -> {"limit"}
      [] OTHER -> {"before_lt", "limit"}

\* A bool argument goes into the query as the string "true" or "false".
AsSent(x) == IF x.t = "bool" THEN PyStr(IF x.n = 1 THEN "true" ELSE "false") ELSE x

(***************************************************************************)
(* C18 as stated.  Every parameter in the query of get_nfts, get_events or *)
(* get_account_transactions was passed a value that is neither None nor    *)
(* the parameter's default.                                                *)
(***************************************************************************)
C18_OnlyNonDefaultSent ==
    query # NoQuery =>
        \A name \in DOMAIN query.params :
            /\ query.args[name] # PyNone
            /\ query.args[name] # Defaults(query.facade)[name]

(***************************************************************************)
(* C18, amended.  limit, offset and indirect_ownership of get_nfts, limit  *)
(* of get_events, and before_lt and limit of get_account_transactions are  *)
(* always in the query with the value passed, at their default and as None *)
(* too.  Every other parameter is in the query exactly when the value      *)
(* passed is truthy: None, False, 0 and '' are omitted, never sent.        *)
(***************************************************************************)
C18_QueryMapping ==
    query # NoQuery =>
        /\ DOMAIN query.params \subseteq DOMAIN query.args
        /\ \A name \in DOMAIN query.args :
              IF name \in AlwaysSent(query.facade)
              THEN /\ name \in DOMAIN query.params
                   /\ query.params[name] = AsSent(query.args[name])
              ELSE /\ name \in DOMAIN query.params <=> PyTruthy(query.args[name])
                   /\ name \in DOMAIN query.params =>
                         /\ query.params[name] = AsSent(query.args[name])
                         /\ query.params[name] # PyNone

C18_Witness ==
    /\ query.facade = "get_events"
    /\ query.args["limit"] = PyInt(100)
    /\ query.args["before_lt"] = PyInt(0)
    /\ query.args["subject_only"] = PyBool(TRUE)
    /\ query.args["start_date"] = PyNone
    /\ query.args["end_date"] = PyInt(5)
    /\ DOMAIN query.params = {"limit", "subject_only", "end_date"}
    /\ query.params["limit"] = PyInt(100)
    /\ query.params["subject_only"] = PyStr("true")

(***************************************************************************)
(* C19.  A call made with a headers mapping leaves that mapping as the     *)
(* caller passed it: while the call runs and after it has completed, the   *)
(* caller's mapping holds exactly the entries it held when it was passed.  *)
(***************************************************************************)
C19_CallerHeadersNotMutated ==
    (pc # "idle" /\ passed) => caller_headers = headers_in

(***************************************************************************)
(* C20.  A call never issues more than max_retries requests; a client      *)
(* built with max_retries = 0 issues none, receives nothing and fails with *)
(* TONAPITooManyRequestsError.                                             *)
(***************************************************************************)
C20_RequestsBoundedByMaxRetries ==
    /\ requests <= max_retries
    /\ Len(trace) <= requests
    /\ (max_retries = 0 /\ pc = "done") =>
          /\ requests = 0
          /\ trace = <<>>
          /\ outcome = TONAPITooManyRequestsError(NoValue)

C20_Witness ==
    /\ max_retries = 0
    /\ pc = "done"
    /\ requests = 0
    /\ trace = <<>>
    /\ outcome.kind = "TONAPITooManyRequestsError"

\* What a call does for its first j responses when limited[k] tells whether
\* response k is followed by the warning and the sleep.
RECURSIVE ExpectedEvents(_, _)
ExpectedEvents(limited, j) ==
    IF j = 0 THEN <<>>
    ELSE ExpectedEvents(limited, j - 1) \o
         (IF limited[j]
          THEN <<"request", "response", "release", "log", "sleep">>
          ELSE <<"request", "response", "release">>)

\* The same, cut at the point the call has reached.
ExpectedSoFar(limited) ==
    LET all == ExpectedEvents(limited, Len(trace))
    IN  CASE pc = "await" -> Append(all, "request")
          [] pc = "sleep" /\ all # <<>> -> SubSeq(all, 1, Len(all) - 1)
          [] OTHER -> all

Status429 == [k \in 1..Len(trace) |-> trace[k].status = 429]

RateLimited == [k \in 1..Len(interps) |-> interps[k].kind = "TONAPITooManyRequestsError"]

CountTrue(flags) == Cardinality({k \in DOMAIN flags : flags[k]})

Min(a, b) == IF a < b THEN a ELSE b

(***************************************************************************)
(* C21 as stated.  Every 429 response is followed by its release, one      *)
(* warning with the attempt number and max_retries and one sleep, in this  *)
(* order, before the next request; a call answered by k 429 responses has  *)
(* slept min(k, max_retries - 1) times when it completes; a call without a *)
(* 429 response logs nothing and never sleeps.                             *)
(***************************************************************************)
C21_SleepOnlyBetweenAttempts ==
    /\ (pc = "done" /\ max_retries > 0) =>
          sleeps = Min(CountTrue(Status429), max_retries - 1)
    /\ CountTrue(Status429) = 0 => (log = <<>> /\ sleeps = 0)

(***************************************************************************)
(* C21, amended.  Every response interpreted as TONAPITooManyRequestsError *)
(* is followed by its release, one warning with the attempt number and     *)
(* max_retries and one sleep, in this order, before the next request or    *)
(* the exhaustion; this includes the last attempt, so a call whose k       *)
(* responses were all rate-limited sleeps k times and an exhausted call    *)
(* has slept max_retries times, the last time right before it fails.  Any  *)
(* other response, a 429 with a JSON body that is not an object included,  *)
(* is released and followed by neither warning nor sleep; a call without a *)
(* rate-limited response logs nothing and never sleeps.                    *)
(***************************************************************************)
C21_RateLimitSequence ==
    /\ events = ExpectedSoFar(RateLimited)
    /\ log = [k \in 1..CountTrue(RateLimited) |-> <<k, max_retries>>]
    /\ sleeps = CountTrue(RateLimited) - (IF pc = "sleep" THEN 1 ELSE 0)
    /\ (pc = "done" /\ outcome = ExhaustedError /\ max_retries > 0) =>
          /\ sleeps = max_retries
          /\ events[Len(events)] = "sleep"
    /\ CountTrue(RateLimited) = 0 => (log = <<>> /\ sleeps = 0)

C21_Witness ==
    /\ pc = "done"
    /\ max_retries = 3
    /\ requests = 3
    /\ \A k \in 1..3 : trace[k].status = 429 /\ trace[k].body.id = "obj_error"
    /\ outcome = ExhaustedError
    /\ log = << <<1, 3>>, <<2, 3>>, <<3, 3>> >>
    /\ sleeps = 3
    /\ events[Len(events)] = "sleep"

\* A completed get_all_nfts has made owned \div 1000 + 1 requests, the last
\* one answered by the owned % 1000 remaining items, and returns them all.
C22_RequestCount ==
    fpc = "done" =>
        /\ nft_result.kind = "return"
        /\ Len(page_log) = (owned \div 1000) + 1
        /\ Len(page_sizes) = Len(page_log)
        /\ page_sizes[Len(page_sizes)] = owned % 1000
        /\ page_sizes[Len(page_sizes)] # 1000
        /\ \A k \in 1..(Len(page_sizes) - 1) : page_sizes[k] = 1000
        /\ Len(nft_result.items) = owned

(***************************************************************************)
(* C22.  Against a server that holds finitely many items and honours       *)
(* offset and limit, every get_all_nfts call completes; it stops on the    *)
(* first page whose length is not 1000: for k*1000 items after k+1         *)
(* requests, the last answered by an empty page, for k*1000 + r items      *)
(* (0 < r < 1000) after k+1 requests, and never after a full page.         *)
(***************************************************************************)
C22_TerminatesAfterShortPage ==
    /\ []C22_RequestCount
    /\ (fpc = "fetch") ~> (fpc = "done")

C22_Witness ==
    /\ fpc = "done"
    /\ owned = 2000
    /\ page_sizes = <<1000, 1000, 0>>
    /\ Len(page_log) = 3
    /\ Len(nft_result.items) = 2000

(***************************************************************************)
(* C23.  For every after_lt, before_lt and limit the blocking              *)
(* get_account_transactions hands the transport core the path and the      *)
(* query mapping that the non-blocking one builds from the same arguments. *)
(***************************************************************************)
C23_SyncAsyncSameRequest ==
    query.facade = "get_account_transactions" =>
        /\ query.path = AsyncGetAccountTransactionsPath(Account)
        /\ query.params =
              AsyncGetAccountTransactionsParams(query.args["after_lt"],
                                                query.args["before_lt"],
                                                query.args["limit"])

====
